---- MODULE Spec2Model ----
(***************************************************************************)
(* A model of the MessagePack Encoder of msgpuck.js, in its two shipped    *)
(* builds: dist/v8v62/cjs/Encoder.js ("cjs") and dist/v8-6.2/Encoder.js    *)
(* ("v8-6.2").                                                             *)
(*                                                                         *)
(* Representation.  TLC's integers are 32 bits wide, JavaScript numbers    *)
(* are doubles, so an integer-valued JavaScript number is held as a sign   *)
(* and a magnitude in three limbs, |n| = h * 2^32 + m * 2^16 + l.  A       *)
(* binary string (the Encoder's output) is a sequence of pieces; a piece   *)
(* is a byte repeated n times, or a group of pieces repeated n times, so   *)
(* that the 2^16 tiers of the format are reached without enumerating       *)
(* 65536 bytes.  A JavaScript string is a sequence of runs of one code     *)
(* point.                                                                  *)
(***************************************************************************)
EXTENDS Integers, Sequences, FiniteSets, TLC

VARIABLES
  variant,         \* which build of Encoder.js is running
  codecs,          \* this.codecs: false (not configured), or a list of codecs
  objectKey,       \* the objectKey option ("ascii" or "utf8")
  bufferLenMin,    \* this.bufferLenMin
  bufferAllocMin,  \* this.bufferAllocMin
  bufferAlloc,     \* this.bufferAlloc
  buffer,          \* this.buffer: null, or a Buffer of some length
  op,              \* the method called last ("new" after construction)
  arg,             \* its argument, [t |-> its kind, v |-> the value]
  ret,             \* the binary string it returned
  trace,           \* the indices of the codecs whose encode it invoked, in order
  before           \* bufferAlloc and buffer as they were when it was called

vars == <<variant, codecs, objectKey, bufferLenMin, bufferAllocMin,
          bufferAlloc, buffer, op, arg, ret, trace, before>>

config == <<variant, codecs, objectKey, bufferLenMin, bufferAllocMin>>

-----------------------------------------------------------------------------
(* Bounds of the model.                                                    *)

\* every integer within MaxDelta of an edge of a tier is an input
MaxDelta == 1

-----------------------------------------------------------------------------
(* Binary strings.                                                         *)

Byte(x) == [n |-> 1, b |-> x, of |-> <<>>]

\* the byte x, k times
ByteRun(x, k) == IF k = 0 THEN <<>> ELSE <<[n |-> k, b |-> x, of |-> <<>>]>>

\* the binary string bin, k times
Repeat(bin, k) ==
  IF k = 0 \/ bin = <<>> THEN <<>>
  ELSE IF k = 1 THEN bin
  ELSE IF Len(bin) = 1 /\ bin[1].b >= 0 THEN <<[n |-> k * bin[1].n, b |-> bin[1].b, of |-> <<>>]>>
  ELSE <<[n |-> k, b |-> -1, of |-> bin]>>

\* a literal such as '\xcb\xff\xf0'
Lit(bytes) == [i \in 1..Len(bytes) |-> Byte(bytes[i])]

\* bin.length of a binary string: its number of bytes
RECURSIVE BinLength(_)
BinLength(bin) ==
  IF bin = <<>> THEN 0
  ELSE (IF bin[1].b >= 0 THEN bin[1].n ELSE bin[1].n * BinLength(bin[1].of))
       + BinLength(Tail(bin))

\* the lookup table of one-character strings, by char code
CHR == [i \in 0..255 |-> <<Byte(i)>>]

-----------------------------------------------------------------------------
(* JavaScript numbers with an integer value, and the operators on them.    *)

MkNum(neg, h, m, l) == [neg |-> neg, h |-> h, m |-> m, l |-> l]

\* a TLC integer as a JavaScript number
Num(i) ==
  LET a == IF i < 0 THEN -i ELSE i
  IN  MkNum(i < 0, 0, a \div 65536, a % 65536)

MagLT(a, b) ==
  \/ a.h < b.h
  \/ a.h = b.h /\ a.m < b.m
  \/ a.h = b.h /\ a.m = b.m /\ a.l < b.l

\* a < b on numbers
NumLT(a, b) ==
  IF a.neg
    THEN IF b.neg THEN MagLT(b, a) ELSE TRUE
    ELSE IF b.neg THEN FALSE ELSE MagLT(a, b)

\* a > b on numbers
NumGT(a, b) == NumLT(b, a)

\* the magnitude plus one
MagSucc(a) ==
  IF a.l < 65535 THEN MkNum(a.neg, a.h, a.m, a.l + 1)
  ELSE IF a.m < 65535 THEN MkNum(a.neg, a.h, a.m + 1, 0)
  ELSE MkNum(a.neg, a.h + 1, 0, 0)

\* The double nearest to an integer of magnitude below 2^54 (ties to even):
\* exact below 2^53, a multiple of 2 from there on.  A numeric literal of the
\* source denotes the double nearest to it.
ToDouble(a) ==
  IF a.h < 2097152 \/ a.l % 2 = 0 THEN a
  ELSE IF a.l % 4 = 1 THEN MkNum(a.neg, a.h, a.m, a.l - 1)
  ELSE MagSucc(a)

\* ToUint32: the number modulo 2^32, as two 16-bit limbs
ToUint32(a) ==
  IF ~a.neg THEN [m |-> a.m, l |-> a.l]
  ELSE IF a.l # 0 THEN [m |-> 65535 - a.m, l |-> 65536 - a.l]
  ELSE IF a.m # 0 THEN [m |-> 65536 - a.m, l |-> 0]
  ELSE [m |-> 0, l |-> 0]

\* ToInt32: the number modulo 2^32, in -2^31 .. 2^31-1
ToInt32(a) ==
  LET u == ToUint32(a)
  IN  IF u.m >= 32768 THEN (u.m - 65536) * 65536 + u.l ELSE u.m * 65536 + u.l

RECURSIVE Pow2(_)
Pow2(k) == IF k = 0 THEN 1 ELSE 2 * Pow2(k - 1)

\* x >> k on an int32
SAR(x, k) == x \div Pow2(k)

RECURSIVE BitAndNat(_, _)
BitAndNat(x, y) ==
  IF x = 0 \/ y = 0 THEN 0
  ELSE (IF x % 2 = 1 /\ y % 2 = 1 THEN 1 ELSE 0) + 2 * BitAndNat(x \div 2, y \div 2)

\* x & mask on an int32 x, for a mask in 0 .. 2^31-1: the sign bit drops out
AND(x, mask) ==
  BitAndNat(IF x >= 0 THEN x ELSE (x + 2147483647) + 1, mask)

\* x | y on two non-negative int32
RECURSIVE OR(_, _)
OR(x, y) ==
  IF x = 0 THEN y
  ELSE IF y = 0 THEN x
  ELSE (IF x % 2 = 1 \/ y % 2 = 1 THEN 1 ELSE 0) + 2 * OR(x \div 2, y \div 2)

\* num >>> k on a number, for 1 <= k <= 16 (the result is below 2^31)
NumUSHR(a, k) ==
  LET u == ToUint32(a)
  IN  u.m * Pow2(16 - k) + u.l \div Pow2(k)

\* num >>> 0 on a number: a number in 0 .. 2^32-1
NumUSHR0(a) ==
  LET u == ToUint32(a)
  IN  MkNum(FALSE, 0, u.m, u.l)

\* num / 0x100000000 >> 0: the quotient is exact in a double, and ToInt32
\* truncates it towards zero (the magnitudes here are below 2^31)
DivPow32Trunc(a) == IF a.neg THEN -a.h ELSE a.h

-----------------------------------------------------------------------------
(* Encoder.encodeInt.                                                      *)

\* function encodeInt64(hi, lo): hi is an int32, lo a number
encodeInt64(hi, lo) ==
  CHR[AND(SAR(hi, 24), \hff)]
    \o CHR[AND(SAR(hi, 16), \hff)]
    \o CHR[AND(SAR(hi, 8), \hff)]
    \o CHR[AND(hi, \hff)]
    \o CHR[AND(SAR(ToInt32(lo), 24), \hff)]
    \o CHR[AND(SAR(ToInt32(lo), 16), \hff)]
    \o CHR[AND(SAR(ToInt32(lo), 8), \hff)]
    \o CHR[AND(ToInt32(lo), \hff)]

\* the literal -0x20000000000001, which no double equals
NegSafeLimit == ToDouble(MkNum(TRUE, 2097152, 0, 1))

\* the literal 0x20000000000000
PosSafeLimit == ToDouble(MkNum(FALSE, 2097152, 0, 0))

\* what the build returns below the safe range (its comment: -Infinity)
NegInfinity(v) ==
  IF v = "cjs" THEN Lit(<<\hcb, \hff, \hf0, 0, 0, 0, 0, 0, 0>>)
  ELSE Lit(<<\hd3, \hff, \hdf, \hff, \hff, \hff, \hff, \hff, \hff>>)

\* what the build returns above the safe range (its comment: Infinity)
PosInfinity(v) ==
  IF v = "cjs" THEN Lit(<<\hcb, \h7f, \hf0, 0, 0, 0, 0, 0, 0>>)
  ELSE Lit(<<\hcf, 0, \h20, 0, 0, 0, 0, 0, 0>>)

\* the high word of the int 64 tier
Int64Hi(num) == DivPow32Trunc(num) - 1

\* the high word of the uint 64 tier
Uint64Hi(num) == OR(NumUSHR(num, 11), 1)

\* a plausible slip: the negative fixint tier one integer too wide
NegFixintLimitWide == Num(-\h22)

\* the literal -0x21, below which a negative integer is no fixint
NegFixintLimit == Num(-\h21)

encodeInt(v, num) ==
  IF NumLT(num, Num(0)) THEN
    IF NumGT(num, NegFixintLimit) THEN
      CHR[AND(ToInt32(num), \hff)]
    ELSE IF NumGT(num, Num(-\h81)) THEN
      Lit(<<\hd0>>) \o CHR[AND(ToInt32(num), \hff)]
    ELSE IF NumGT(num, Num(-\h8001)) THEN
      Lit(<<\hd1>>)
        \o CHR[AND(SAR(ToInt32(num), 8), \hff)]
        \o CHR[AND(ToInt32(num), \hff)]
    ELSE IF NumGT(num, MkNum(TRUE, 0, \h8000, 1)) THEN
      Lit(<<\hd2>>)
        \o CHR[AND(SAR(ToInt32(num), 24), \hff)]
        \o CHR[AND(SAR(ToInt32(num), 16), \hff)]
        \o CHR[AND(SAR(ToInt32(num), 8), \hff)]
        \o CHR[AND(ToInt32(num), \hff)]
    ELSE IF NumGT(num, NegSafeLimit) THEN
      Lit(<<\hd3>>) \o encodeInt64(Int64Hi(num), NumUSHR0(num))
    ELSE NegInfinity(v)
  ELSE IF NumLT(num, Num(\h80)) THEN
    CHR[num.l]
  ELSE IF NumLT(num, Num(\h100)) THEN
    Lit(<<\hcc>>) \o CHR[num.l]
  ELSE IF NumLT(num, Num(\h10000)) THEN
    Lit(<<\hcd>>)
      \o CHR[SAR(ToInt32(num), 8)]
      \o CHR[AND(ToInt32(num), \hff)]
  ELSE IF NumLT(num, MkNum(FALSE, 1, 0, 0)) THEN
    Lit(<<\hce>>)
      \o CHR[AND(SAR(ToInt32(num), 24), \hff)]
      \o CHR[AND(SAR(ToInt32(num), 16), \hff)]
      \o CHR[AND(SAR(ToInt32(num), 8), \hff)]
      \o CHR[AND(ToInt32(num), \hff)]
  ELSE IF NumLT(num, PosSafeLimit) THEN
    Lit(<<\hcf>>) \o encodeInt64(Uint64Hi(num), num)
  ELSE PosInfinity(v)

-----------------------------------------------------------------------------
(* The inputs of encodeInt: every integer-valued double of magnitude below *)
(* 2^54 whose limbs are each within MaxDelta of an edge.                   *)

Near(edges, top) ==
  {x \in UNION {(e - MaxDelta)..(e + MaxDelta) : e \in edges} : x >= 0 /\ x <= top}

LimbEdges == {0, \h20, \h21, \h80, \h81, \h100, \h7fff, \h8000, \h8001, \hffff}

HighEdges == {0, 1, 2, \h1fffff, \h200000, \h3fffff}

IntInputs ==
  {a \in {MkNum(s, h, m, l) : s \in BOOLEAN, h \in Near(HighEdges, \h3fffff),
                              m \in Near({0, \h7fff, \h8000, \hffff}, \hffff),
                              l \in Near(LimbEdges, \hffff)} :
     /\ a.neg => (a.h # 0 \/ a.m # 0 \/ a.l # 0)
     /\ ToDouble(a) = a}

-----------------------------------------------------------------------------
(* Construction, and the specification of encodeInt.                       *)

Variants == {"cjs", "v8-6.2"}

\* constructor(): the options' defaults
InitDefault ==
  /\ variant \in Variants
  /\ codecs = [configured |-> FALSE, list |-> <<>>]
  /\ objectKey = "ascii"
  /\ bufferLenMin = 15
  /\ bufferAllocMin = 2048
  /\ bufferAlloc = 0
  /\ buffer = [null |-> TRUE, length |-> 0]
  /\ op = "new"
  /\ arg = [v |-> <<>>, t |-> "none"]
  /\ ret = <<>>
  /\ trace = <<>>
  /\ before = [bufferAlloc |-> 0, buffer |-> [null |-> TRUE, length |-> 0]]

\* encodeInt reads and writes no field of the Encoder: one call on a fresh
\* Encoder shows all it can do
EncodeInt(num) ==
  /\ op = "new"
  /\ op' = "encodeInt"
  /\ arg' = [v |-> num, t |-> "int"]
  /\ ret' = encodeInt(variant, num)
  /\ trace' = <<>>
  /\ before' = [bufferAlloc |-> bufferAlloc, buffer |-> buffer]
  /\ UNCHANGED <<config, bufferAlloc, buffer>>

NextInt == \E num \in IntInputs : EncodeInt(num)

SpecInt == InitDefault /\ [][NextInt]_vars

-----------------------------------------------------------------------------
(* JavaScript strings: a sequence of runs [cp |-> code point, n |-> count] *)
(* with n > 0; the empty string is <<>>.                                   *)

\* the UTF-16 code units of a code point
Units(cp) == IF cp >= \h10000 THEN 2 ELSE 1

\* str.length
RECURSIVE StrLength(_)
StrLength(str) ==
  IF str = <<>> THEN 0
  ELSE str[1].n * Units(str[1].cp) + StrLength(Tail(str))

\* the UTF-8 bytes of a code point
Utf8(cp) ==
  IF cp < \h80 THEN <<cp>>
  ELSE IF cp < \h800 THEN <<\hc0 + cp \div 64, \h80 + (cp % 64)>>
  ELSE IF cp < \h10000 THEN
    <<\he0 + cp \div 4096, \h80 + ((cp \div 64) % 64), \h80 + (cp % 64)>>
  ELSE
    <<\hf0 + cp \div 262144, \h80 + ((cp \div 4096) % 64),
      \h80 + ((cp \div 64) % 64), \h80 + (cp % 64)>>

\* utf8toBin(str) of the utf8-bin package: the UTF-8 bytes of the whole string
RECURSIVE utf8toBin(_)
utf8toBin(str) ==
  IF str = <<>> THEN <<>>
  ELSE Repeat(Lit(Utf8(str[1].cp)), str[1].n) \o utf8toBin(Tail(str))

\* buffer.utf8Write(str, 0) on a buffer of the given length, as the bytes it
\* wrote: the characters that fit whole, up to the first that does not
RECURSIVE utf8Write(_, _)
utf8Write(str, length) ==
  IF str = <<>> THEN <<>>
  ELSE LET w == Len(Utf8(str[1].cp))
           fit == length \div w
           k == IF fit < str[1].n THEN fit ELSE str[1].n
       IN  Repeat(Lit(Utf8(str[1].cp)), k)
             \o (IF k < str[1].n THEN <<>>
                 ELSE utf8Write(Tail(str), length - k * w))

\* x >>> k on a non-negative int32
USHR(x, k) == x \div Pow2(k)

\* the capacity encodeStr allocates for a string of len code units
GrowTo(allocMin, len) == allocMin * OR(USHR(len, 10), 2)

\* the tag and length prefix encodeStr puts before len payload bytes
StrHeader(len) ==
  IF len < \h20 THEN CHR[OR(len, \ha0)]
  ELSE IF len < \h100 THEN Lit(<<\hd9>>) \o CHR[len]
  ELSE IF len < \h10000 THEN
    Lit(<<\hda>>) \o CHR[SAR(len, 8)] \o CHR[AND(len, \hff)]
  ELSE
    Lit(<<\hdb>>)
      \o CHR[AND(SAR(len, 24), \hff)]
      \o CHR[AND(SAR(len, 16), \hff)]
      \o CHR[AND(SAR(len, 8), \hff)]
      \o CHR[AND(len, \hff)]

\* The mutable fields of an Encoder are st = [bufferAlloc, buffer]; its
\* options are env = [variant, codecs, objectKey, bufferLenMin,
\* bufferAllocMin].  A method returns [bin |-> its result, st |-> the fields
\* after it].
encodeStr(env, st, str) ==
  LET len == StrLength(str) IN
  IF len = 0 THEN [bin |-> Lit(<<\ha0>>), st |-> st]
  ELSE IF len < env.bufferLenMin THEN
    LET bin == utf8toBin(str)
    IN  [bin |-> StrHeader(BinLength(bin)) \o bin, st |-> st]
  ELSE
    LET st1 == IF len > st.bufferAlloc
                 THEN [bufferAlloc |-> GrowTo(env.bufferAllocMin, len),
                       buffer |-> [null |-> FALSE,
                                   length |-> GrowTo(env.bufferAllocMin, len)]]
                 ELSE st
        bin == utf8Write(str, st1.buffer.length)
    IN  [bin |-> StrHeader(BinLength(bin)) \o bin, st |-> st1]

-----------------------------------------------------------------------------
(* The specification of encodeStr: any sequence of calls on one Encoder.   *)

\* U+0061, U+00E9, U+20AC and U+1F600: 1, 2, 3 and 4 bytes of UTF-8
CodePoints == {\h61, \he9, \h20ac, \h1f600}

Run(cp, k) == IF k = 0 THEN <<>> ELSE <<[n |-> k, cp |-> cp]>>

\* the edges of the tiers, of the inline threshold and of the capacities
StrCounts == Near({1, 15, 32, 256, 1366, 2048, 65536}, 65537)

StrInputs ==
  {Run(cp, k) : cp \in CodePoints, k \in StrCounts}
    \cup {Run(\h61, i) \o Run(\h20ac, j) : i \in {1, 14}, j \in {1, 1365}}

\* the bufferLenMin and bufferAllocMin options, the defaults first
LenMins == <<15, 0>>

AllocMins == <<2048, 1024, 1>>

InitStr ==
  /\ variant = "cjs"
  /\ codecs = [configured |-> FALSE, list |-> <<>>]
  /\ objectKey = "ascii"
  /\ \E i \in 1..Len(LenMins) : bufferLenMin = LenMins[i]
  /\ \E i \in 1..Len(AllocMins) : bufferAllocMin = AllocMins[i]
  /\ bufferAlloc = 0
  /\ buffer = [null |-> TRUE, length |-> 0]
  /\ op = "new"
  /\ arg = [v |-> <<>>, t |-> "none"]
  /\ ret = <<>>
  /\ trace = <<>>
  /\ before = [bufferAlloc |-> 0, buffer |-> [null |-> TRUE, length |-> 0]]

Env ==
  [variant |-> variant, codecs |-> codecs, objectKey |-> objectKey,
   bufferLenMin |-> bufferLenMin, bufferAllocMin |-> bufferAllocMin]

St == [bufferAlloc |-> bufferAlloc, buffer |-> buffer]

\* a new Encoder's fields
FreshSt == [bufferAlloc |-> 0, buffer |-> [null |-> TRUE, length |-> 0]]

\* a call returns: the fields the callee left in this, the result, and the
\* record of the call
Return(name, value, r, calls) ==
  /\ op' = name
  /\ arg' = value
  /\ ret' = r.bin
  /\ bufferAlloc' = r.st.bufferAlloc
  /\ buffer' = r.st.buffer
  /\ trace' = calls
  /\ before' = St
  /\ UNCHANGED config

EncodeStr(str) ==
  Return("encodeStr", [v |-> str, t |-> "str"], encodeStr(Env, St, str), <<>>)

NextStr == \E str \in StrInputs : EncodeStr(str)

SpecStr == InitStr /\ [][NextStr]_vars

-----------------------------------------------------------------------------
(* Encoder.encode and the containers.  A value is [t |-> kind, v |-> ...]: *)
(*   "nil", "bool" (v a BOOLEAN), "int" (v a number), "str" (v a string),  *)
(*   "bin" (a Buffer; v its bytes), "ext" (v = [type, bin]),               *)
(*   "arr" (v a sequence of runs [val |-> value, n |-> count]),            *)
(*   "obj" (v = [class, entries], entries the runs [key, val, n] that the  *)
(*   objectCase function enumerates: the key, obj[key], and how many times *)
(*   in a row the key is listed, once for Object.keys).                    *)

\* the result null of a codec's encode
Null == <<[n |-> 0, b |-> -1, of |-> <<>>]>>

\* bin += piece, k times over; equal neighbours are kept as one repetition
AppendBin(chunks, bin, k) ==
  IF k = 0 THEN chunks
  ELSE IF chunks # <<>> /\ chunks[Len(chunks)].bin = bin
    THEN [chunks EXCEPT ![Len(chunks)].n = @ + k]
    ELSE Append(chunks, [n |-> k, bin |-> bin])

RECURSIVE Render(_)
Render(chunks) ==
  IF chunks = <<>> THEN <<>>
  ELSE Repeat(chunks[1].bin, chunks[1].n) \o Render(Tail(chunks))

\* arr.length
RECURSIVE ArrLength(_)
ArrLength(runs) == IF runs = <<>> THEN 0 ELSE runs[1].n + ArrLength(Tail(runs))

\* encodeAscii of ./encoders, the fast encoder of ASCII-only keys: the str
\* header for the key's length, then its characters, one byte each (the keys
\* of the inputs are ASCII); the scratch buffer is not used
encodeAscii(env, st, str) ==
  [bin |-> StrHeader(StrLength(str)) \o utf8toBin(str), st |-> st]

\* this.encodeObjectKey(key)
encodeObjectKey(env, st, key) ==
  IF env.objectKey = "ascii" THEN encodeAscii(env, st, key)
  ELSE encodeStr(env, st, key)

encodeBin(buf) ==
  LET len == BinLength(buf) IN
  IF len = 0 THEN Lit(<<\hc4, 0>>)
  ELSE IF len < \h100 THEN Lit(<<\hc4>>) \o CHR[len] \o buf
  ELSE IF len < \h10000 THEN
    Lit(<<\hc5>>) \o CHR[SAR(len, 8)] \o CHR[AND(len, \hff)] \o buf
  ELSE
    Lit(<<\hc6>>)
      \o CHR[AND(SAR(len, 24), \hff)]
      \o CHR[AND(SAR(len, 16), \hff)]
      \o CHR[AND(SAR(len, 8), \hff)]
      \o CHR[AND(len, \hff)]
      \o buf

\* a plausible slip: the case of 16 bytes forgotten
ExtHeaderNo16(len) ==
  IF len = 1 THEN Lit(<<\hd4>>)
  ELSE IF len = 2 THEN Lit(<<\hd5>>)
  ELSE IF len = 4 THEN Lit(<<\hd6>>)
  ELSE IF len = 8 THEN Lit(<<\hd7>>)
  ELSE IF len < \h100 THEN Lit(<<\hc7>>) \o CHR[len]
  ELSE IF len < \h10000 THEN
    Lit(<<\hc8>>) \o CHR[SAR(len, 8)] \o CHR[AND(len, \hff)]
  ELSE
    Lit(<<\hc9>>)
      \o CHR[AND(SAR(len, 24), \hff)]
      \o CHR[AND(SAR(len, 16), \hff)]
      \o CHR[AND(SAR(len, 8), \hff)]
      \o CHR[AND(len, \hff)]

\* the tag and length prefix encodeExt puts before ext, for len payload bytes
ExtHeader(len) ==
  IF len = 1 THEN Lit(<<\hd4>>)
  ELSE IF len = 2 THEN Lit(<<\hd5>>)
  ELSE IF len = 4 THEN Lit(<<\hd6>>)
  ELSE IF len = 8 THEN Lit(<<\hd7>>)
  ELSE IF len = 16 THEN Lit(<<\hd8>>)
  ELSE IF len < \h100 THEN Lit(<<\hc7>>) \o CHR[len]
  ELSE IF len < \h10000 THEN
    Lit(<<\hc8>>) \o CHR[SAR(len, 8)] \o CHR[AND(len, \hff)]
  ELSE
    Lit(<<\hc9>>)
      \o CHR[AND(SAR(len, 24), \hff)]
      \o CHR[AND(SAR(len, 16), \hff)]
      \o CHR[AND(SAR(len, 8), \hff)]
      \o CHR[AND(len, \hff)]

encodeExt(type, bin) ==
  LET ext == CHR[AND(type, \h7f)] \o bin
      len == BinLength(bin)
  IN  ExtHeader(len) \o ext

\* a plausible slip: 16 elements still taken for a fixarray
ArrayHeaderWide(len) ==
  IF len <= \h10 THEN CHR[OR(\h90, len)]
  ELSE IF len < \h10000 THEN
    Lit(<<\hdc>>) \o CHR[SAR(len, 8)] \o CHR[AND(len, \hff)]
  ELSE
    Lit(<<\hdd>>)
      \o CHR[AND(SAR(len, 24), \hff)]
      \o CHR[AND(SAR(len, 16), \hff)]
      \o CHR[AND(SAR(len, 8), \hff)]
      \o CHR[AND(len, \hff)]

\* the header encodeArray puts before len elements
ArrayHeader(len) ==
  IF len < \h10 THEN CHR[OR(\h90, len)]
  ELSE IF len < \h10000 THEN
    Lit(<<\hdc>>) \o CHR[SAR(len, 8)] \o CHR[AND(len, \hff)]
  ELSE
    Lit(<<\hdd>>)
      \o CHR[AND(SAR(len, 24), \hff)]
      \o CHR[AND(SAR(len, 16), \hff)]
      \o CHR[AND(SAR(len, 8), \hff)]
      \o CHR[AND(len, \hff)]

\* the header encodeObject puts before len pairs
MapHeader(len) ==
  IF len < \h10 THEN CHR[OR(\h80, len)]
  ELSE IF len < \h10000 THEN
    Lit(<<\hde>>) \o CHR[SAR(len, 8)] \o CHR[AND(len, \hff)]
  ELSE
    Lit(<<\hdf>>)
      \o CHR[AND(SAR(len, 24), \hff)]
      \o CHR[AND(SAR(len, 16), \hff)]
      \o CHR[AND(SAR(len, 8), \hff)]
      \o CHR[AND(len, \hff)]

\* codec.encode(encoder, value): UndefinedCodec returns null; a codec of the
\* application returns the Ext of its type for the classes it supports
codecEncode(codec, value) ==
  IF codec.name = "UndefinedCodec" THEN Null
  ELSE IF value.v.class \in codec.classes
    THEN encodeExt(codec.type, Lit(<<codec.type>>))
    ELSE Null

\* a plausible slip: the list walked from its first codec up
RECURSIVE codecLoopAscending(_, _, _)
codecLoopAscending(list, value, i) ==
  IF i > 0 THEN
    LET j == Len(list) - i + 1
        bin == codecEncode(list[j], value)
    IN  IF bin # Null THEN [trace |-> <<j - 1>>, bin |-> bin]
        ELSE LET rest == codecLoopAscending(list, value, i - 1)
             IN  [trace |-> <<j - 1>> \o rest.trace, bin |-> rest.bin]
  ELSE [trace |-> <<>>, bin |-> Null]

\* the while loop of encode over this.codecs, from i down: the first result
\* that is not null (or null), and the indices whose encode was invoked
RECURSIVE codecLoop(_, _, _)
codecLoop(list, value, i) ==
  IF i > 0 THEN
    LET bin == codecEncode(list[i], value) IN
    IF bin # Null THEN [trace |-> <<i - 1>>, bin |-> bin]
    ELSE LET rest == codecLoop(list, value, i - 1)
         IN  [trace |-> <<i - 1>> \o rest.trace, bin |-> rest.bin]
  ELSE [trace |-> <<>>, bin |-> Null]

\* return bin: the header and what the loop appended to it
headed(header, r) == [bin |-> header \o Render(r.chunks), st |-> r.st]

RECURSIVE encode(_, _, _)
RECURSIVE encodeElements(_, _, _, _)
RECURSIVE encodePairs(_, _, _, _)
RECURSIVE elementAppended(_, _, _, _, _)
RECURSIVE valueAppended(_, _, _, _, _)
RECURSIVE pairAppended(_, _, _, _, _, _)

\* the for loop of encodeArray over the elements left, bin += encode(arr[i]);
\* once an element leaves the Encoder's fields as they were, the equal
\* elements after it encode as it did
encodeElements(env, st, runs, chunks) ==
  IF runs = <<>> THEN [st |-> st, chunks |-> chunks]
  ELSE elementAppended(env, st, runs, chunks, encode(env, st, runs[1].val))

\* bin += r.bin, r the encoding of the element arr[i]
elementAppended(env, st, runs, chunks, r) ==
  LET n == runs[1].n IN
  IF n > 1 /\ r.st = st
    THEN encodeElements(env, st, Tail(runs), AppendBin(chunks, r.bin, n))
  ELSE IF n > 1
    THEN encodeElements(env, r.st,
                        <<[n |-> n - 1, val |-> runs[1].val]>> \o Tail(runs),
                        AppendBin(chunks, r.bin, 1))
  ELSE encodeElements(env, r.st, Tail(runs), AppendBin(chunks, r.bin, 1))

encodeArray(env, st, arr) ==
  LET len == ArrLength(arr) IN
  IF len = 0 THEN [bin |-> Lit(<<\h90>>), st |-> st]
  ELSE headed(ArrayHeader(len), encodeElements(env, st, arr, <<>>))

\* the for loop of encodeObject over the keys left
encodePairs(env, st, runs, chunks) ==
  IF runs = <<>> THEN [st |-> st, chunks |-> chunks]
  ELSE valueAppended(env, st, runs, chunks,
                     encodeObjectKey(env, st, runs[1].key))

\* bin += k.bin, k the encoding of the key; then the value's encoding
valueAppended(env, st, runs, chunks, k) ==
  pairAppended(env, st, runs, chunks, k.bin, encode(env, k.st, runs[1].val))

pairAppended(env, st, runs, chunks, key, r) ==
  LET n == runs[1].n IN
  IF n > 1 /\ r.st = st
    THEN encodePairs(env, st, Tail(runs), AppendBin(chunks, key \o r.bin, n))
  ELSE IF n > 1
    THEN encodePairs(env, r.st,
                     <<[runs[1] EXCEPT !.n = n - 1]>> \o Tail(runs),
                     AppendBin(chunks, key \o r.bin, 1))
  ELSE encodePairs(env, r.st, Tail(runs), AppendBin(chunks, key \o r.bin, 1))

encodeObject(env, st, obj) ==
  LET len == ArrLength(obj.entries) IN
  IF len = 0 THEN [bin |-> Lit(<<\h80>>), st |-> st]
  ELSE headed(MapHeader(len), encodePairs(env, st, obj.entries, <<>>))

encode(env, st, value) ==
  IF value.t = "str" THEN encodeStr(env, st, value.v)
  ELSE IF value.t = "int" THEN [bin |-> encodeInt(env.variant, value.v), st |-> st]
  ELSE IF value.t = "nil" THEN [bin |-> Lit(<<\hc0>>), st |-> st]
  ELSE IF value.t = "arr" THEN encodeArray(env, st, value.v)
  ELSE IF value.t = "bin" THEN [bin |-> encodeBin(value.v), st |-> st]
  ELSE IF value.t = "ext" THEN [bin |-> encodeExt(value.v.type, value.v.bin), st |-> st]
  ELSE IF value.t = "obj" THEN
    LET c == IF env.codecs.configured
               THEN codecLoop(env.codecs.list, value, Len(env.codecs.list))
               ELSE [trace |-> <<>>, bin |-> Null]
    IN  IF c.bin # Null THEN [bin |-> c.bin, st |-> st]
        ELSE encodeObject(env, st, value.v)
  ELSE [bin |-> (IF value.v THEN Lit(<<\hc3>>) ELSE Lit(<<\hc2>>)), st |-> st]

RECURSIVE encodeMapEntries(_, _, _, _)
RECURSIVE mapValueAppended(_, _, _, _, _)
RECURSIVE mapEntryAppended(_, _, _, _, _, _)

\* the for-of loop of encodeMap (build v8-6.2) over the entries left; a Map
\* is the sequence of its entries [key |-> value, val |-> value], in
\* insertion order
encodeMapEntries(env, st, entries, chunks) ==
  IF entries = <<>> THEN [st |-> st, chunks |-> chunks]
  ELSE mapValueAppended(env, st, entries, chunks,
                        encode(env, st, entries[1].key))

\* bin += this.encode(key), then bin += this.encode(value)
mapValueAppended(env, st, entries, chunks, k) ==
  mapEntryAppended(env, st, entries, chunks, k.bin,
                   encode(env, k.st, entries[1].val))

mapEntryAppended(env, st, entries, chunks, key, r) ==
  encodeMapEntries(env, r.st, Tail(entries), AppendBin(chunks, key \o r.bin, 1))

\* encodeMap of the build v8-6.2
encodeMap(env, st, map) ==
  LET size == Len(map) IN
  IF size = 0 THEN [bin |-> Lit(<<\h80>>), st |-> st]
  ELSE headed(MapHeader(size), encodeMapEntries(env, st, map, <<>>))

\* the codecs whose encode a call of encode(value) itself invokes, in order
encodeTrace(env, value) ==
  IF value.t = "obj" /\ env.codecs.configured
    THEN codecLoop(env.codecs.list, value, Len(env.codecs.list)).trace
    ELSE <<>>

-----------------------------------------------------------------------------
(* The specification of encode, encodeArray and encodeObject: any sequence *)
(* of calls on one Encoder.                                                *)

VNil == [v |-> <<>>, t |-> "nil"]
VBool(x) == [v |-> x, t |-> "bool"]
VInt(i) == [v |-> Num(i), t |-> "int"]
VStr(str) == [v |-> str, t |-> "str"]
VBin(buf) == [v |-> buf, t |-> "bin"]
VExt(type, bin) == [v |-> [bin |-> bin, type |-> type], t |-> "ext"]
VArr(runs) == [v |-> runs, t |-> "arr"]
VObj(class, entries) == [v |-> [class |-> class, entries |-> entries], t |-> "obj"]

\* val, k times in a row in an array
Elems(val, k) == IF k = 0 THEN <<>> ELSE <<[n |-> k, val |-> val]>>

\* key and obj[key], enumerated k times in a row
Entries(key, val, k) == IF k = 0 THEN <<>> ELSE <<[n |-> k, key |-> key, val |-> val]>>

\* the element counts at the edges of the container tiers
Counts == Near({1, 16, 65536}, 65537)

\* the elements the arrays and objects of the tiers are filled with: one
\* that leaves the scratch buffer alone and one that goes through it
Fillers == <<VInt(5), VStr(Run(\h61, 15))>>

\* arrays of unlike elements, in an order that matters, and nested arrays
MixedArrays ==
  <<Elems(VInt(5), 1) \o Elems(VStr(Run(\h61, 3)), 1) \o Elems(VNil, 2)
      \o Elems(VBool(TRUE), 1),
    Elems(VStr(Run(\h20ac, 1366)), 1) \o Elems(VStr(Run(\h61, 15)), 1),
    Elems(VArr(Elems(VInt(-33), 16)), 2) \o Elems(VArr(<<>>), 1)>>

\* the object { k: val }, its key enumerated count times
TierObject(val, count) ==
  [class |-> "Object", entries |-> Entries(Run(\h6b, 1), val, count)]

\* objects of several keys, and an object of a class of its own
MixedObjects ==
  <<[class |-> "Object",
     entries |-> Entries(Run(\h61, 1), VInt(1), 1)
                   \o Entries(Run(\he9, 15), VStr(Run(\h62, 16)), 1)
                   \o Entries(Run(\h63, 2), VArr(Elems(VNil, 1)), 1)],
    [class |-> "Date", entries |-> <<>>]>>

Values ==
  <<VNil, VBool(FALSE), VBool(TRUE), VInt(0), VInt(-33), VInt(128),
    VStr(<<>>), VStr(Run(\h61, 3)), VStr(Run(\h61, 15)), VStr(Run(\h20ac, 1366)),
    VStr(Run(\h20ac, 2048)), VBin(<<>>), VBin(ByteRun(\h2a, 6)),
    VBin(ByteRun(\h2a, 256)), VExt(42, Lit(<<\h2a>>)),
    VArr(Elems(VStr(Run(\h20ac, 1366)), 2)),
    VArr(Elems(VInt(5), 16)),
    VArr(Elems(VStr(Run(\h61, 15)), 1) \o Elems(VStr(Run(\h20ac, 1366)), 1)),
    VObj("Object", Entries(Run(\h6b, 1), VStr(Run(\h61, 15)), 2)),
    VObj("Date", <<>>)>>

UndefinedCodec == [name |-> "UndefinedCodec", type |-> \h0a, classes |-> {}]

VMap(entries) == [v |-> entries, t |-> "map"]

\* a Map of size integer keys 0 .. size - 1, each with the value null
IntMap(size) == [i \in 1..size |-> [key |-> VInt(i - 1), val |-> VNil]]

\* sizes of a Map: empty and small ones (the header of a larger one is
\* MapHeader, the header of encodeObject)
MapSizes == Near({1}, 4)

Maps ==
  <<<<[key |-> VStr(Run(\h6b, 1)), val |-> VStr(Run(\h61, 15))]>>,
    <<[key |-> VStr(Run(\h61, 15)), val |-> VNil],
      [key |-> VStr(Run(\h62, 1)), val |-> VStr(Run(\h20ac, 1366))]>>,
    <<[key |-> VInt(-33), val |-> VArr(Elems(VStr(Run(\h20ac, 2048)), 1))]>> >>

\* no key of the value's objects is enumerated more than once
RECURSIVE PlainKeys(_)
PlainKeys(value) ==
  IF value.t = "arr"
    THEN \A i \in 1..Len(value.v) : PlainKeys(value.v[i].val)
  ELSE IF value.t = "obj"
    THEN \A i \in 1..Len(value.v.entries) :
           value.v.entries[i].n = 1 /\ PlainKeys(value.v.entries[i].val)
  ELSE TRUE

\* the value is one the build can be given: the option objectCase, which may
\* enumerate a key more than once, exists in the build cjs only; the build
\* v8-6.2 enumerates with Object.keys
Enumerable(value) == variant = "cjs" \/ PlainKeys(value)

Init ==
  /\ variant \in Variants
  /\ codecs \in {[configured |-> FALSE, list |-> <<>>],
                 [configured |-> TRUE, list |-> <<UndefinedCodec>>]}
  /\ objectKey \in {"ascii", "utf8"}
  /\ bufferLenMin = 15
  /\ \E i \in {1, 3} : bufferAllocMin = AllocMins[i]
  /\ bufferAlloc = 0
  /\ buffer = [null |-> TRUE, length |-> 0]
  /\ op = "new"
  /\ arg = [v |-> <<>>, t |-> "none"]
  /\ ret = <<>>
  /\ trace = <<>>
  /\ before = [bufferAlloc |-> 0, buffer |-> [null |-> TRUE, length |-> 0]]

Encode(value) ==
  /\ Enumerable(value)
  /\ Return("encode", value, encode(Env, St, value), encodeTrace(Env, value))

EncodeArray(arr) ==
  /\ Enumerable(VArr(arr))
  /\ Return("encodeArray", VArr(arr), encodeArray(Env, St, arr), <<>>)

EncodeObject(obj) ==
  /\ Enumerable(VObj(obj.class, obj.entries))
  /\ Return("encodeObject", VObj(obj.class, obj.entries),
            encodeObject(Env, St, obj), <<>>)

\* encodeMap exists in the build v8-6.2 only
EncodeMap(map) ==
  /\ variant = "v8-6.2"
  /\ Return("encodeMap", VMap(map), encodeMap(Env, St, map), <<>>)

Next ==
  \/ \E size \in MapSizes : EncodeMap(IntMap(size))
  \/ \E i \in 1..Len(Maps) : EncodeMap(Maps[i])
  \/ \E i \in 1..Len(Values) : Encode(Values[i])
  \/ \E f \in 1..Len(Fillers), k \in Counts : EncodeArray(Elems(Fillers[f], k))
  \/ \E i \in 1..Len(MixedArrays) : EncodeArray(MixedArrays[i])
  \/ \E f \in 1..Len(Fillers), k \in Counts : EncodeObject(TierObject(Fillers[f], k))
  \/ \E i \in 1..Len(MixedObjects) : EncodeObject(MixedObjects[i])

Spec == Init /\ [][Next]_vars

-----------------------------------------------------------------------------
(* What MessagePack asks of an integer's encoding, stated on the bytes.    *)

\* the byte values of a binary string made of single bytes
Flat(bin) == [i \in 1..Len(bin) |-> IF bin[i].n = 1 THEN bin[i].b ELSE -1]

\* a byte read as a signed 8-bit integer
Signed8(x) == IF x >= 128 THEN x - 256 ELSE x

\* the non-positive TLC integer of a negative number of magnitude <= 2^31
NegValue(a) == (-a.m) * 65536 - a.l

InInt32Range(a) ==
  /\ a.h = 0
  /\ a.neg => (a.m < \h8000 \/ (a.m = \h8000 /\ a.l = 0))

\* bs is the narrowest MessagePack form of the integer a, -2^31 <= a < 2^32
IsNarrowestForm(a, bs) ==
  IF a.neg THEN
    LET v == NegValue(a) IN
    IF v >= -32 THEN bs = <<256 + v>>
    ELSE IF v >= -128 THEN
      Len(bs) = 2 /\ bs[1] = \hd0 /\ Signed8(bs[2]) = v
    ELSE IF v >= -32768 THEN
      Len(bs) = 3 /\ bs[1] = \hd1 /\ Signed8(bs[2]) * 256 + bs[3] = v
    ELSE
      /\ Len(bs) = 5 /\ bs[1] = \hd2
      /\ Signed8(bs[2]) * 16777216 + bs[3] * 65536 + bs[4] * 256 + bs[5] = v
  ELSE IF a.m = 0 /\ a.l < 128 THEN bs = <<a.l>>
  ELSE IF a.m = 0 /\ a.l < 256 THEN bs = <<\hcc, a.l>>
  ELSE IF a.m = 0 THEN
    Len(bs) = 3 /\ bs[1] = \hcd /\ bs[2] * 256 + bs[3] = a.l
  ELSE
    /\ Len(bs) = 5 /\ bs[1] = \hce
    /\ bs[2] * 256 + bs[3] = a.m
    /\ bs[4] * 256 + bs[5] = a.l

\* C1: for every integer n with -2^31 <= n < 2^32, encodeInt(n) is the
\* narrowest exact MessagePack form of n, the payload big-endian (two's
\* complement for a negative n); so 127 -> 7f, 128 -> cc 80, -1 -> ff,
\* -33 -> d0 df.
C1_NarrowestForm ==
  (op = "encodeInt" /\ InInt32Range(arg.v)) =>
    /\ IsNarrowestForm(arg.v, Flat(ret))
    /\ arg.v = Num(127) => Flat(ret) = <<\h7f>>
    /\ arg.v = Num(128) => Flat(ret) = <<\hcc, \h80>>
    /\ arg.v = Num(-1) => Flat(ret) = <<\hff>>
    /\ arg.v = Num(-33) => Flat(ret) = <<\hd0, \hdf>>

\* an int 32 below -32768 has been encoded
C1_Witness ==
  /\ op = "encodeInt" /\ arg.v = MkNum(TRUE, 0, \h8000, 0)
  /\ Flat(ret) = <<\hd2, \h80, 0, 0, 0>>

\* the four 16-bit words of the 64-bit two's complement of a negative number
TwosComplement64(a) ==
  LET w == <<a.h \div 65536, a.h % 65536, a.m, a.l>>
      inv == [i \in 1..4 |-> 65535 - w[i]]
      c4 == inv[4] + 1
      c3 == inv[3] + c4 \div 65536
      c2 == inv[2] + c3 \div 65536
      c1 == inv[1] + c2 \div 65536
  IN  <<c1 % 65536, c2 % 65536, c3 % 65536, c4 % 65536>>

Words64(a) ==
  IF a.neg THEN TwosComplement64(a)
  ELSE <<a.h \div 65536, a.h % 65536, a.m, a.l>>

\* the 64-bit tier of the safe range
InSafe64Tier(a) == ~InInt32Range(a) /\ a.h < \h200000

\* C2: for every integer n in the 64-bit tier of the safe range, encodeInt(n)
\* is the tag cf (n >= 0) or d3 (n < 0) and the 8 bytes of n's big-endian
\* 64-bit representation.
C2_Int64Exact ==
  (op = "encodeInt" /\ InSafe64Tier(arg.v)) =>
    LET bs == Flat(ret)
        w == Words64(arg.v)
    IN  /\ Len(bs) = 9
        /\ bs[1] = (IF arg.v.neg THEN \hd3 ELSE \hcf)
        /\ \A i \in 1..4 : bs[2 * i] * 256 + bs[2 * i + 1] = w[i]

\* C3: in both builds, every integer n <= -2^53 is encoded as the float 64
\* pattern of -Infinity, every integer n >= 2^53 as that of +Infinity, and no
\* integer of the safe range as either.
C3_SafeBoundary ==
  op = "encodeInt" =>
    LET bs == Flat(ret)
        minusInf == <<\hcb, \hff, \hf0, 0, 0, 0, 0, 0, 0>>
        plusInf == <<\hcb, \h7f, \hf0, 0, 0, 0, 0, 0, 0>>
    IN  IF arg.v.h >= \h200000
          THEN bs = (IF arg.v.neg THEN minusInf ELSE plusInf)
          ELSE bs # minusInf /\ bs # plusInf

-----------------------------------------------------------------------------
(* What MessagePack asks of a string's encoding, read off the bytes.       *)

\* the pieces of the tag and length prefix of an encoded string
StrHeaderLen(bin) ==
  IF bin[1].b = \hd9 THEN 2
  ELSE IF bin[1].b = \hda THEN 3
  ELSE IF bin[1].b = \hdb THEN 5
  ELSE 1

\* the payload length the tag and length prefix declare
StrDeclared(bin) ==
  IF bin[1].b = \hd9 THEN bin[2].b
  ELSE IF bin[1].b = \hda THEN bin[2].b * 256 + bin[3].b
  ELSE IF bin[1].b = \hdb THEN
    ((bin[2].b * 256 + bin[3].b) * 256 + bin[4].b) * 256 + bin[5].b
  ELSE bin[1].b - \ha0

\* what follows the tag and length prefix
StrPayload(bin) == SubSeq(bin, StrHeaderLen(bin) + 1, Len(bin))

\* the tag MessagePack gives a string of L bytes
StrTagFor(L) ==
  IF L < 32 THEN \ha0 + L
  ELSE IF L < 256 THEN \hd9
  ELSE IF L < 65536 THEN \hda
  ELSE \hdb

\* the tag and the length prefix are those of the emitted payload's length
StrPrefixMatchesPayload ==
  op = "encodeStr" =>
    LET L == BinLength(StrPayload(ret)) IN
    /\ \A i \in 1..StrHeaderLen(ret) : ret[i].n = 1 /\ ret[i].b \in 0..255
    /\ ret[1].b = StrTagFor(L)
    /\ StrDeclared(ret) = L
    /\ arg.v = <<>> => ret = <<Byte(\ha0)>>

\* C4: for every string with str.length >= bufferLenMin, in every reachable
\* state of the scratch buffer, the payload encodeStr emits is the complete
\* UTF-8 encoding of the string: the buffer is large enough for the write.
C4_PayloadComplete ==
  (op = "encodeStr" /\ StrLength(arg.v) >= bufferLenMin) =>
    /\ StrPayload(ret) = utf8toBin(arg.v)
    /\ BinLength(StrPayload(ret)) = BinLength(utf8toBin(arg.v))

\* C6: for every string, encodeStr takes the tag and the length prefix from
\* the UTF-8 byte length L of the emitted payload, on both paths: the empty
\* string is a0, L < 32 is a0|L, L < 256 is d9, L < 65536 is da, else db, and
\* the prefix equals the number of payload bytes; in particular 31 ASCII
\* characters use fixstr and 32 use str 8.
C6_StrTiers ==
  /\ StrPrefixMatchesPayload
  /\ (op = "encodeStr" /\ arg.v = Run(\h61, 31)) => ret[1].b = \hbf
  /\ (op = "encodeStr" /\ arg.v = Run(\h61, 32)) => ret[1].b = \hd9

\* the last call was a call of encodeStr that allocated a new scratch buffer
Reallocated ==
  /\ op = "encodeStr"
  /\ StrLength(arg.v) >= bufferLenMin
  /\ StrLength(arg.v) > before.bufferAlloc

\* C10: for every bufferAllocMin and every sequence of calls, bufferAlloc
\* never decreases: a reallocation in encodeStr gives a capacity strictly
\* greater than the one before, and nothing else changes the capacity.
C10_CapacityGrows ==
  /\ bufferAlloc >= before.bufferAlloc
  /\ Reallocated => bufferAlloc > before.bufferAlloc
  /\ ~Reallocated => bufferAlloc = before.bufferAlloc

\* max(2, ceil(len / 1024))
GrowthFactor(len) ==
  LET blocks == (len + 1023) \div 1024
  IN  IF blocks > 2 THEN blocks ELSE 2

\* C11: whenever encodeStr reallocates the scratch buffer for a string of
\* length len, the new capacity is bufferAllocMin * max(2, ceil(len / 1024)),
\* for every len and every bufferAllocMin.
C11_GrowthFormula ==
  Reallocated => bufferAlloc = bufferAllocMin * GrowthFactor(StrLength(arg.v))

-----------------------------------------------------------------------------
(* History independence of encode.                                         *)

\* C5: encode is deterministic and independent of the Encoder's history:
\* whatever calls came before, and whatever scratch buffer they left,
\* encode(value) returns the bytes a new Encoder of the same options returns.
C5_HistoryIndependent ==
  op = "encode" => ret = encode(Env, FreshSt, arg).bin

-----------------------------------------------------------------------------
(* The containers.                                                         *)

\* the pieces of the header of an encoded array or map
ContainerHeaderLen(bin) ==
  IF bin[1].b \in {\hdc, \hde} THEN 3
  ELSE IF bin[1].b \in {\hdd, \hdf} THEN 5
  ELSE 1

\* the count the header declares; fix is the tag of the empty container
ContainerDeclared(bin, fix) ==
  IF bin[1].b \in {\hdc, \hde} THEN bin[2].b * 256 + bin[3].b
  ELSE IF bin[1].b \in {\hdd, \hdf} THEN
    ((bin[2].b * 256 + bin[3].b) * 256 + bin[4].b) * 256 + bin[5].b
  ELSE bin[1].b - fix

\* the tag MessagePack gives a container of n members
ContainerTagFor(n, fix, tag16, tag32) ==
  IF n < 16 THEN fix + n
  ELSE IF n < 65536 THEN tag16
  ELSE tag32

ContainerBody(bin) == SubSeq(bin, ContainerHeaderLen(bin) + 1, Len(bin))

\* encode(arr[0]) .. encode(arr[n-1]), one after the other on the Encoder,
\* as [chunks |-> the encodings in order, st |-> the fields after the last]
RECURSIVE ElementsInOrder(_, _, _)
ElementsInOrder(env, st, runs) ==
  IF runs = <<>> THEN [st |-> st, chunks |-> <<>>]
  ELSE
    LET first == encode(env, st, runs[1].val)
        same == first.st = st
        rest == IF runs[1].n = 1 \/ same THEN Tail(runs)
                ELSE <<[runs[1] EXCEPT !.n = @ - 1]>> \o Tail(runs)
        after == ElementsInOrder(env, first.st, rest)
        times == IF same THEN runs[1].n ELSE 1
    IN  [chunks |-> IF after.chunks # <<>> /\ after.chunks[1].bin = first.bin
                      THEN <<[n |-> times + after.chunks[1].n, bin |-> first.bin]>>
                             \o Tail(after.chunks)
                      ELSE <<[n |-> times, bin |-> first.bin]>> \o after.chunks,
         st |-> after.st]

\* each key's encoding and then its value's, pair after pair in the order of
\* the enumeration
RECURSIVE PairsInOrder(_, _, _)
PairsInOrder(env, st, runs) ==
  IF runs = <<>> THEN [st |-> st, chunks |-> <<>>]
  ELSE
    LET key == IF env.objectKey = "ascii" THEN encodeAscii(env, st, runs[1].key)
               ELSE encodeStr(env, st, runs[1].key)
        val == encode(env, key.st, runs[1].val)
        pair == key.bin \o val.bin
        same == val.st = st
        rest == IF runs[1].n = 1 \/ same THEN Tail(runs)
                ELSE <<[runs[1] EXCEPT !.n = @ - 1]>> \o Tail(runs)
        after == PairsInOrder(env, val.st, rest)
        times == IF same THEN runs[1].n ELSE 1
    IN  [chunks |-> IF after.chunks # <<>> /\ after.chunks[1].bin = pair
                      THEN <<[n |-> times + after.chunks[1].n, bin |-> pair]>>
                             \o Tail(after.chunks)
                      ELSE <<[n |-> times, bin |-> pair]>> \o after.chunks,
         st |-> after.st]

\* C8: encodeArray emits the header its n chooses (90 for none, 90|n below
\* 16, dc and 2 bytes below 65536, else dd and 4 bytes) and then exactly the
\* n element encodings in index order; encodeObject emits the like map header
\* (80, 80|k, de, df) and then exactly the k pairs in the order of the
\* enumeration, each key followed by its own value: 15 elements are a
\* fixarray, 16 an array 16, and the declared count is the number encoded.
C8_Containers ==
  /\ op = "encodeArray" =>
       LET n == ArrLength(arg.v) IN
       /\ \A i \in 1..ContainerHeaderLen(ret) : ret[i].n = 1 /\ ret[i].b \in 0..255
       /\ ret[1].b = ContainerTagFor(n, \h90, \hdc, \hdd)
       /\ ContainerDeclared(ret, \h90) = n
       /\ n = 0 => ret = <<Byte(\h90)>>
       /\ ContainerBody(ret) = Render(ElementsInOrder(Env, before, arg.v).chunks)
       /\ n = 15 => ret[1].b = \h9f
       /\ n = 16 => ret[1].b = \hdc
  /\ op = "encodeObject" =>
       LET k == ArrLength(arg.v.entries) IN
       /\ \A i \in 1..ContainerHeaderLen(ret) : ret[i].n = 1 /\ ret[i].b \in 0..255
       /\ ret[1].b = ContainerTagFor(k, \h80, \hde, \hdf)
       /\ ContainerDeclared(ret, \h80) = k
       /\ k = 0 => ret = <<Byte(\h80)>>
       /\ ContainerBody(ret) = Render(PairsInOrder(Env, before, arg.v.entries).chunks)

\* an array 16 of 16 strings has been encoded on an Encoder whose scratch
\* buffer an earlier call had allocated
C8_Witness ==
  /\ op = "encodeArray" /\ ArrLength(arg.v) = 16 /\ arg.v[1].val.t = "str"
  /\ before.bufferAlloc > 0
  /\ Flat(SubSeq(ret, 1, 3)) = <<\hdc, 0, 16>>
  /\ ret[4].n = 16

-----------------------------------------------------------------------------
(* The codecs: encode of an object, for every list of up to MaxCodecs      *)
(* codecs.                                                                 *)

MaxCodecs == 2

\* two codecs of the application for Date, one for Point, and UndefinedCodec
Codecs ==
  {UndefinedCodec,
   [name |-> "DateCodec", type |-> 1, classes |-> {"Date"}],
   [name |-> "DateCodec2", type |-> 2, classes |-> {"Date"}],
   [name |-> "PointCodec", type |-> 3, classes |-> {"Point"}]}

CodecLists == UNION {[1..k -> Codecs] : k \in 0..MaxCodecs}

\* objects of the classes the codecs know, and a plain one
CodecObjects ==
  <<VObj("Date", <<>>),
    VObj("Point", Entries(Run(\h78, 1), VInt(1), 1) \o Entries(Run(\h79, 1), VInt(-33), 1)),
    VObj("Object", Entries(Run(\h6b, 3), VStr(Run(\h61, 3)), 1)),
    VObj("Object", <<>>)>>

InitCodec ==
  /\ variant = "cjs"
  /\ codecs \in {[configured |-> FALSE, list |-> <<>>]}
                  \cup {[configured |-> TRUE, list |-> l] : l \in CodecLists}
  /\ objectKey = "ascii"
  /\ bufferLenMin = 15
  /\ bufferAllocMin = 2048
  /\ bufferAlloc = 0
  /\ buffer = [null |-> TRUE, length |-> 0]
  /\ op = "new"
  /\ arg = [v |-> <<>>, t |-> "none"]
  /\ ret = <<>>
  /\ trace = <<>>
  /\ before = [bufferAlloc |-> 0, buffer |-> [null |-> TRUE, length |-> 0]]

NextCodec == \E i \in 1..Len(CodecObjects) : Encode(CodecObjects[i])

SpecCodec == InitCodec /\ [][NextCodec]_vars

\* the codec claims the object: its encode returns other than null
Claims(codec, value) ==
  codec.name # "UndefinedCodec" /\ value.v.class \in codec.classes

\* the JavaScript indices of the codecs that claim the object
Claimants(value) ==
  {i \in 0..(Len(codecs.list) - 1) : Claims(codecs.list[i + 1], value)}

Highest(S) == CHOOSE i \in S : \A j \in S : j <= i

\* C7: for an object that is not null, not an array, not a Buffer and not an
\* Ext, encode calls the codecs' encode in strictly descending index order and
\* returns the first result that is not null: that of the highest codec that
\* claims the object, no codec below it being invoked, a codec returning null
\* being skipped; when none claims it, or no list is configured, the object
\* is encoded as a map by encodeObject.
C7_CodecOrder ==
  (op = "encode" /\ arg.t = "obj") =>
    IF codecs.configured /\ Claimants(arg) # {}
      THEN LET w == Highest(Claimants(arg))
               n == Len(codecs.list)
           IN  /\ Flat(ret) = <<\hd4, codecs.list[w + 1].type, codecs.list[w + 1].type>>
               /\ trace = [i \in 1..(n - w) |-> n - i]
      ELSE /\ ret = encodeObject(Env, before, arg.v).bin
           /\ trace = IF codecs.configured
                        THEN [i \in 1..Len(codecs.list) |-> Len(codecs.list) - i]
                        ELSE <<>>

\* two codecs claim the object and the one registered last has encoded it,
\* the other not having been asked
C7_Witness ==
  /\ op = "encode" /\ arg.t = "obj"
  /\ Len(codecs.list) = 2 /\ Claimants(arg) = {0, 1}
  /\ codecs.list[1].type # codecs.list[2].type
  /\ trace = <<1>>
  /\ Flat(ret) = <<\hd4, codecs.list[2].type, codecs.list[2].type>>

-----------------------------------------------------------------------------
(* Encoder.encodeExt.                                                      *)

ExtTypes == {-1, 0, 42, 127, 128, 255}

\* the payload lengths at the edges of the families
ExtLengths == Near({0, 1, 2, 4, 8, 16, 256, 65536}, 65537)

ExtPayloads ==
  {ByteRun(\h2a, k) : k \in ExtLengths}
    \cup {Lit(<<\hd4, 0, \hff>>), Lit(<<1, 2>>) \o ByteRun(\hc7, 254)}

\* encodeExt reads and writes no field of the Encoder
EncodeExt(type, bin) ==
  /\ op = "new"
  /\ op' = "encodeExt"
  /\ arg' = VExt(type, bin)
  /\ ret' = encodeExt(type, bin)
  /\ trace' = <<>>
  /\ before' = [bufferAlloc |-> bufferAlloc, buffer |-> buffer]
  /\ UNCHANGED <<config, bufferAlloc, buffer>>

NextExt == \E type \in ExtTypes, bin \in ExtPayloads : EncodeExt(type, bin)

SpecExt == InitDefault /\ [][NextExt]_vars

\* the tag MessagePack gives an Ext of L payload bytes
ExtTagFor(L) ==
  IF L = 1 THEN \hd4
  ELSE IF L = 2 THEN \hd5
  ELSE IF L = 4 THEN \hd6
  ELSE IF L = 8 THEN \hd7
  ELSE IF L = 16 THEN \hd8
  ELSE IF L < 256 THEN \hc7
  ELSE IF L < 65536 THEN \hc8
  ELSE \hc9

\* the bytes of the length prefix that follows the tag
ExtPrefixFor(L) ==
  IF L \in {1, 2, 4, 8, 16} THEN <<>>
  ELSE IF L < 256 THEN <<L>>
  ELSE IF L < 65536 THEN <<L \div 256, L % 256>>
  ELSE <<L \div 16777216, (L \div 65536) % 256, (L \div 256) % 256, L % 256>>

\* C9: encodeExt(t, payload) emits the family tag, for ext 8/16/32 the
\* big-endian length L of the payload, one type byte t mod 128 and the payload
\* unchanged; the family is fixext 1/2/4/8/16 exactly for L in 1, 2, 4, 8, 16,
\* else ext 8 below 256, ext 16 below 65536, else ext 32; so Ext(42, [2a]) is
\* d4 2a 2a.
C9_ExtLayout ==
  op = "encodeExt" =>
    LET L == BinLength(arg.v.bin)
        p == Len(ExtPrefixFor(L))
    IN  /\ Len(ret) = 2 + p + Len(arg.v.bin)
        /\ Flat(SubSeq(ret, 1, 2 + p))
             = <<ExtTagFor(L)>> \o ExtPrefixFor(L) \o <<arg.v.type % 128>>
        /\ SubSeq(ret, 3 + p, Len(ret)) = arg.v.bin
        /\ (arg.v.type = 42 /\ arg.v.bin = <<Byte(\h2a)>>)
             => Flat(ret) = <<\hd4, \h2a, \h2a>>

\* an Ext of 3 payload bytes and type 255 has been encoded as an ext 8
C9_Witness ==
  /\ op = "encodeExt" /\ arg.v.type = 255 /\ arg.v.bin = Lit(<<\hd4, 0, \hff>>)
  /\ Flat(ret) = <<\hc7, 3, \h7f, \hd4, 0, \hff>>

====
